---- MODULE Spec2Model ----
(***************************************************************************)
(* Window lifecycle controller of Mstdn (src/main/window.ts).              *)
(*                                                                         *)
(* The controller runs on the single-threaded event loop of its host       *)
(* (Electron, the menubar package, electron-window-state).  One action of  *)
(* this module is one turn of that loop: a call made by the application    *)
(* (create, open, close) or one host event together with every listener    *)
(* the event runs.  The host objects are modelled by what the controller   *)
(* can observe of them: the listener lists of the event emitters, the      *)
(* window reference of a menubar, the accelerator table of globalShortcut. *)
(*                                                                         *)
(* Three observation variables hold what the last turn did:                *)
(*   lastOp the call or host event of the turn                             *)
(*   calls  the host calls the controller made, in order                   *)
(*   ran    the controller callbacks the host invoked, in order            *)
(*                                                                         *)
(* What the model takes from the host:                                     *)
(*   - the user's Config is loaded once; every create call gets the same   *)
(*     one, so all windows of a run are of the same mode;                  *)
(*   - a menubar emits 'ready' in a later turn than the call that made it, *)
(*     and a menubar handle reaches the application only in the wrapper    *)
(*     its create call resolved to;                                        *)
(*   - browser.close() is completed by the host in a later turn, which     *)
(*     emits 'close' and 'closed' to the listeners left on the window;     *)
(*   - after the first app.quit() the application runs no further turn;    *)
(*   - developer tools (IS_DEBUG) and the restored geometry values are     *)
(*     left out, no listener or promise depends on them.                   *)
(***************************************************************************)
EXTENDS Integers, Sequences, FiniteSets, TLC

VARIABLES
    IS_DARWIN,    \* process.platform === 'darwin'
    config,       \* the user's Config, loaded once and passed to every create call
    windows,      \* host BrowserWindow objects, by handle 1..Len(windows)
    menubars,     \* menubar handles, by handle 1..Len(menubars)
    promises,     \* one entry per create call: the promise and, once resolved, the wrapper
    managed,      \* managed[c]: window the geometry state of create call c tracks, 0 if none
    shortcut,     \* globalShortcut table for the hot key: <<>> or <<callback>>
    permHandler,  \* session partitions that have a permission request handler
    dialogs,      \* open permission prompts
    quit,         \* number of app.quit() calls so far
    lastOp,       \* the last turn of the event loop
    calls,        \* host calls made by the controller in the last turn
    ran           \* controller callbacks invoked in the last turn

vars == <<IS_DARWIN, config, windows, menubars, promises, managed, shortcut, permHandler,
          dialogs, quit, lastOp, calls, ran>>

-----------------------------------------------------------------------------
(* Bounds and inputs *)

MaxCreates == 3    \* create calls in a run
MaxDialogs == 1    \* permission prompts open at once
MaxOpen == 1       \* host windows (or trays about to make one) alive at once

\* Strings are sequences of tokens, so that startsWith is computed.
Accounts == { [name |-> "A", host |-> <<"a">>],
              [name |-> "B", host |-> <<"a", "b">>] }

Configs == [normal_window : BOOLEAN, hot_key : {"", "K"}]

\* under the host of A only, under the hosts of A and B, under neither (two)
Urls == { <<"https://", "a">>, <<"https://", "a", "b">>, <<"https://", "b">>,
          <<"http://", "a">> }

Permissions == {"geolocation", "media", "notifications"}
ButtonIndexes == {0, 1}

-----------------------------------------------------------------------------
(* Pure helpers *)

\* String.prototype.startsWith
StartsWith(s, p) == Len(s) >= Len(p) /\ SubSeq(s, 1, Len(p)) = p

\* `https://${account.host}`
HostPrefix(account) == <<"https://">> \o account.host

\* the account's session partition (src/main/account_switcher, not in src/)
partitionForAccount(account) == <<"persist:mstdn", account.name>> \o account.host

\* the listeners of one event, in registration order
RECURSIVE SelectSeqBy(_, _)
SelectSeqBy(seq, ev) ==
    IF seq = <<>> THEN <<>>
    ELSE IF Head(seq).ev = ev THEN <<Head(seq)>> \o SelectSeqBy(Tail(seq), ev)
    ELSE SelectSeqBy(Tail(seq), ev)

RECURSIVE Count(_, _)
Count(seq, name) ==
    IF seq = <<>> THEN 0
    ELSE (IF Head(seq).call = name THEN 1 ELSE 0) + Count(Tail(seq), name)

\* EventEmitter: the once-listeners of ev are removed when ev is emitted
RECURSIVE DropOnce(_, _)
DropOnce(seq, ev) ==
    IF seq = <<>> THEN <<>>
    ELSE IF Head(seq).ev = ev /\ Head(seq).once THEN DropOnce(Tail(seq), ev)
    ELSE <<Head(seq)>> \o DropOnce(Tail(seq), ev)

Listener(ev, once, h, c) == [ev |-> ev, once |-> once, h |-> h, c |-> c]

-----------------------------------------------------------------------------
(* The state threaded through one turn of the event loop *)

Cur == [darwin |-> IS_DARWIN, config |-> config, windows |-> windows, menubars |-> menubars,
        promises |-> promises, managed |-> managed, shortcut |-> shortcut,
        permHandler |-> permHandler, dialogs |-> dialogs, quit |-> quit,
        calls |-> <<>>, ran |-> <<>>]

\* a host call made by the controller: its name, the window it is made on
\* (0 if none) and its arguments, written as a sequence of strings
Bool(v) == IF v THEN <<"true">> ELSE <<"false">>

Call(S, name, win, arg) ==
    [S EXCEPT !.calls = Append(@, [call |-> name, win |-> win, arg |-> arg])]

\* a controller callback invoked by the host; win is the window it works on
Invoked(S, h, c, win) ==
    [S EXCEPT !.ran = Append(@, [h |-> h, c |-> c, win |-> win])]

Alive(S, b) == b # 0 /\ S.windows[b].status # "destroyed"

-----------------------------------------------------------------------------
(* Host objects, as far as the controller drives them *)

\* The host fires 'ready-to-show' once per window; it is modelled for the
\* windows that have a listener for it, readyFired recording that it fired.

\* BrowserWindow.show(): the window is shown and takes the focus
winShow(S, b) ==
    [S EXCEPT !.windows = [x \in DOMAIN @ |->
        IF x = b THEN [@[x] EXCEPT !.visible = TRUE, !.focused = TRUE]
        ELSE [@[x] EXCEPT !.focused = FALSE]]]

\* BrowserWindow.hide()
winHide(S, b) ==
    [S EXCEPT !.windows[b].visible = FALSE, !.windows[b].focused = FALSE]

\* app.hide() (macOS): every window of the application is hidden
appHide(S) ==
    [S EXCEPT !.windows = [x \in DOMAIN @ |->
        [@[x] EXCEPT !.visible = FALSE, !.focused = FALSE]]]

\* app.quit()
appQuit(S) == [Call(S, "app.quit", 0, <<>>) EXCEPT !.quit = @ + 1]

\* electron-window-state: manage(win) tracks win until unmanage() or 'closed'
stateManage(S, c, b) ==
    [Call(S, "state.manage", b, <<ToString(c)>>) EXCEPT
        !.managed[c] = b,
        !.windows[b].listeners = Append(@, Listener("closed", FALSE, "state.closed", c))]

StateListenerOf(c) == Listener("closed", FALSE, "state.closed", c)

\* (unmanage() that leaves the state attached to its window)
stateUnmanage_KeepRef(S, c) == Call(S, "state.unmanage", S.managed[c], <<ToString(c)>>)

stateUnmanage(S, c) ==
    LET b == S.managed[c]
        S1 == Call(S, "state.unmanage", b, <<ToString(c)>>)
    IN  IF b = 0 THEN S1
        ELSE [S1 EXCEPT
                !.managed[c] = 0,
                !.windows[b].listeners =
                    SelectSeq(@, LAMBDA l : l # StateListenerOf(c))]

\* globalShortcut.register(accelerator, callback): an accelerator that is
\* already in the table keeps its callback, the call fails silently
shortcutRegister(S, cb) ==
    LET S1 == Call(S, "globalShortcut.register", cb.win, <<S.config.hot_key, ToString(cb.c)>>)
    IN  IF S1.shortcut = <<>> THEN [S1 EXCEPT !.shortcut = <<cb>>] ELSE S1

-----------------------------------------------------------------------------
(* class Window *)

\* new Window(browser, state, account, menubar), the constructor body
WindowCtor(S, c, b) ==
    LET S1 == IF ~S.darwin THEN Call(S, "setMenu", b, <<>>) ELSE S
    IN  [S1 EXCEPT
            !.windows[b].wcListeners = @ \o
                << Listener("will-navigate", FALSE, "will-navigate", c),
                   Listener("new-window", FALSE, "new-window", c) >>,
            !.permHandler = @ \cup {S1.windows[b].partition}]

\* resolve(new Window(browser, state, account, menubar))
Resolve(S, c, b, mb) ==
    [WindowCtor(S, c, b) EXCEPT
        !.promises[c].resolved = TRUE,
        !.promises[c].browser = b,
        !.promises[c].menubar = mb]

\* the 'will-navigate' listener of wrapper c
onWillNavigate(S, c, b, url) ==
    LET S1 == Invoked(S, "will-navigate", c, b)
    IN  IF ~StartsWith(url, HostPrefix(S.promises[c].account))
        THEN Call(Call(S1, "preventDefault", b, url), "openExternal", b, url)
        ELSE S1

\* the 'new-window' listener of wrapper c
onNewWindow(S, c, b, url) ==
    Call(Call(Invoked(S, "new-window", c, b), "preventDefault", b, url),
         "openExternal", b, url)

PromptButtons == <<"Accept", "Reject">>

\* the test of the handler, inverted
NeedsPrompt_Inverted(permission) ==
    ~(permission = "geolocation" \/ permission = "media")

NeedsPrompt(permission) == permission = "geolocation" \/ permission = "media"

\* (a handler that answers a prompted request at once and prompts as well)
onPermissionRequest_AnswerAndPrompt(S, b, permission) ==
    LET S1 == Call(Invoked(S, "permission-request", 0, b), "callback", b, Bool(TRUE))
    IN  IF ~NeedsPrompt(permission) THEN S1
        ELSE [Call(S1, "dialog.showMessageBox", b, PromptButtons) EXCEPT
                !.dialogs = Append(@, [permission |-> permission,
                                       buttons |-> PromptButtons])]

\* the permission request handler of the session of window b
onPermissionRequest(S, b, permission) ==
    LET S1 == Invoked(S, "permission-request", 0, b)
    IN  IF ~NeedsPrompt(permission)
        THEN Call(S1, "callback", b, Bool(TRUE))
        ELSE [Call(S1, "dialog.showMessageBox", b, PromptButtons) EXCEPT
                !.dialogs = Append(@, [permission |-> permission,
                                       buttons |-> PromptButtons])]

\* the callback of dialog.showMessageBox
\* (the buttons read in the other order)
Granted_Swapped(buttonIndex) == buttonIndex = 1

Granted(buttonIndex) == buttonIndex = 0

onDialogAnswer(S, d, buttonIndex) ==
    LET S1 == Invoked(S, "dialog-answer", 0, 0)
    IN  [Call(S1, "callback", 0, Bool(Granted(buttonIndex))) EXCEPT
            !.dialogs = SubSeq(@, 1, d - 1) \o SubSeq(@, d + 1, Len(@))]

\* (close() that leaves the window attached to its menubar)
CloseSteps_NoDetach == << "state.unmanage", "webContents.removeAllListeners",
                          "removeAllListeners", "browser.close" >>

\* (the host window closed before the listeners are removed)
CloseSteps_CloseFirst == << "state.unmanage", "browser.close",
                            "webContents.removeAllListeners",
                            "removeAllListeners", "delete menubar.window" >>

\* the host calls of close(), in the order close() makes them
CloseSteps == << "state.unmanage", "webContents.removeAllListeners",
                 "removeAllListeners", "delete menubar.window", "browser.close" >>

CloseStep(S, c, step) ==
    LET w  == S.promises[c]
        b  == w.browser
    IN  CASE step = "state.unmanage" -> stateUnmanage(S, c)
          [] step = "webContents.removeAllListeners" ->
                [Call(S, step, b, <<>>) EXCEPT !.windows[b].wcListeners = <<>>]
          [] step = "removeAllListeners" ->
                [Call(S, step, b, <<>>) EXCEPT !.windows[b].listeners = <<>>]
          [] step = "delete menubar.window" ->
                IF w.menubar # 0
                THEN [Call(S, step, b, <<ToString(w.menubar)>>) EXCEPT
                        !.menubars[w.menubar].window = 0]
                ELSE S
          [] step = "browser.close" ->
                [Call(S, step, b, <<>>) EXCEPT !.windows[b].status = "closing"]

RECURSIVE RunCloseSteps(_, _, _)
RunCloseSteps(S, c, steps) ==
    IF steps = <<>> THEN S
    ELSE RunCloseSteps(CloseStep(S, c, Head(steps)), c, Tail(steps))

\* Window.close()
WindowClose(S, c) ==
    [RunCloseSteps(S, c, CloseSteps) EXCEPT !.promises[c].closed = TRUE]

-----------------------------------------------------------------------------
(* startNormalWindow *)

NewWindow(partition, mb, listeners) ==
    [status |-> "open", partition |-> partition, visible |-> FALSE,
     focused |-> FALSE, mb |-> mb, readyFired |-> FALSE,
     listeners |-> listeners, wcListeners |-> <<>>]

\* (the wrapper constructed but the promise left unresolved)
resolveNormal_Missing(S, c, b) == WindowCtor(S, c, b)

\* resolve(new Window(win, state, account, null))
resolveNormal(S, c, b) == Resolve(S, c, b, 0)

startNormalWindow(S, c) ==
    LET account == S.promises[c].account
        b  == Len(S.windows) + 1
        S1 == Call([S EXCEPT !.windows = Append(@,
                        NewWindow(partitionForAccount(account), 0,
                            << Listener("ready-to-show", TRUE, "show", c),
                               Listener("closed", TRUE, "quit", c) >>))],
                   "new BrowserWindow", b, partitionForAccount(account))
        S2 == stateManage(S1, c, b)
        S3 == [S2 EXCEPT !.windows[b].wcListeners = @ \o
                << Listener("dom-ready", FALSE, "sendConfig", c),
                   Listener("dom-ready", TRUE, "launched", c) >>]
    IN  resolveNormal(S3, c, b)

\* the arguments of webContents.send('mstdn:config', config, account)
ConfigMessage(cfg, account) ==
    <<"mstdn:config", IF cfg.normal_window THEN "normal_window" ELSE "menubar",
      cfg.hot_key, account.name>> \o account.host

\* toggleWindow of startNormalWindow, closed over win = b
toggleWindow(S, c, b) ==
    LET S1 == Invoked(S, "toggleWindow", c, b)
    IN  IF ~Alive(S, b) THEN Call(S1, "isFocused", b, <<"throws">>)
        ELSE IF S.windows[b].focused
             THEN IF S.darwin THEN appHide(Call(S1, "app.hide", b, <<>>))
                  ELSE winHide(Call(S1, "hide", b, <<>>), b)
             ELSE winShow(Call(S1, "show", b, <<>>), b)

\* win.webContents.on('dom-ready', ...) of startNormalWindow
sendConfigNormal(S, c, b) ==
    Call(Invoked(S, "sendConfig", c, b), "send", b,
         ConfigMessage(S.config, S.promises[c].account))

\* win.webContents.once('dom-ready', ...) of startNormalWindow
launchedNormal(S, c, b) ==
    LET S1 == Invoked(S, "launched", c, b)
    IN  IF S.config.hot_key # ""
        THEN shortcutRegister(S1, [kind |-> "normal", c |-> c, win |-> b, mb |-> 0])
        ELSE S1

-----------------------------------------------------------------------------
(* startMenuBar, with the menubar package it drives *)

\* the 'after-create-window' listener of create call c
afterCreateWindow(S, c, mb) ==
    LET b  == S.menubars[mb].window
        S1 == Invoked(S, "after-create-window", c, b)
        S2 == IF S.config.hot_key # ""
              THEN shortcutRegister(S1, [kind |-> "menubar", c |-> c, win |-> b, mb |-> mb])
              ELSE S1
        S3 == [S2 EXCEPT !.windows[b].wcListeners =
                    Append(@, Listener("dom-ready", FALSE, "sendConfig", c))]
        S4 == stateManage(S3, c, b)
    IN  Resolve(S4, c, b, mb)

RECURSIVE EmitAfterCreateWindow(_, _, _)
EmitAfterCreateWindow(S, mb, ls) ==
    IF ls = <<>> THEN S
    ELSE EmitAfterCreateWindow(afterCreateWindow(S, Head(ls).c, mb), mb, Tail(ls))

\* menubar: createWindow() makes the popup window from the current options
\* and emits 'after-create-window'
mbCreateWindow(S, mb) ==
    LET b  == Len(S.windows) + 1
        ls == SelectSeqBy(S.menubars[mb].listeners, "after-create-window")
        S1 == [S EXCEPT
                !.windows = Append(@, NewWindow(S.menubars[mb].partition, mb,
                                << Listener("close", FALSE, "windowClear", 0) >>)),
                !.menubars[mb].window = b,
                !.menubars[mb].listeners = DropOnce(@, "after-create-window")]
    IN  EmitAfterCreateWindow(S1, mb, ls)

\* menubar: showWindow() creates the window if there is none, then shows it
mbShowWindow(S, mb) ==
    LET S1 == IF S.menubars[mb].window = 0 THEN mbCreateWindow(S, mb) ELSE S
    IN  winShow(S1, S1.menubars[mb].window)

\* menubar: hideWindow()
mbHideWindow(S, mb) ==
    IF S.menubars[mb].window = 0 THEN S ELSE winHide(S, S.menubars[mb].window)

\* the hot-key callback of startMenuBar, closed over mb
toggleMenubar(S, c, mb) ==
    LET b  == S.menubars[mb].window
        S1 == Invoked(S, "toggleMenubar", c, b)
    IN  IF ~Alive(S, b) THEN Call(S1, "isFocused", b, <<"throws">>)
        ELSE IF S.windows[b].focused
             THEN mbHideWindow(Call(S1, "mb.hideWindow", b, <<ToString(mb)>>), mb)
             ELSE mbShowWindow(Call(S1, "mb.showWindow", b, <<ToString(mb)>>), mb)

\* mb.window.webContents.on('dom-ready', ...) of startMenuBar, closed over mb
sendConfigMenubar(S, c, mb) ==
    LET b  == S.menubars[mb].window
        S1 == Invoked(S, "sendConfig", c, b)
    IN  IF ~Alive(S, b) THEN Call(S1, "send", b, <<"throws">>)
        ELSE Call(S1, "send", b, ConfigMessage(S.config, S.promises[c].account))

\* (the window shown again without the partition of the new account)
reuseMenuBar_KeepPartition(S, mb, account) ==
    mbShowWindow(Call(S, "mb.showWindow", S.menubars[mb].window, <<ToString(mb)>>), mb)

\* the branch of startMenuBar for an existing handle
reuseMenuBar(S, mb, account) ==
    LET S1 == [Call(S, "mb.setOption", 0, partitionForAccount(account))
                    EXCEPT !.menubars[mb].partition = partitionForAccount(account)]
    IN  mbShowWindow(Call(S1, "mb.showWindow", S1.menubars[mb].window, <<ToString(mb)>>), mb)

startMenuBar(S, c, bar) ==
    LET account == S.promises[c].account
        mb == IF bar # 0 THEN bar ELSE Len(S.menubars) + 1
        S1 == IF bar # 0 THEN S
              ELSE Call([S EXCEPT !.menubars = Append(@,
                            [partition |-> partitionForAccount(account),
                             ready |-> FALSE, window |-> 0, listeners |-> <<>>])],
                        "menubar", 0, partitionForAccount(account))
        S2 == [S1 EXCEPT !.menubars[mb].listeners = @ \o
                << Listener("after-create-window", TRUE, "after-create-window", c),
                   Listener("after-close", TRUE, "quit", c) >>]
    IN  IF bar # 0
        THEN reuseMenuBar(S2, mb, account)
        ELSE [S2 EXCEPT !.menubars[mb].listeners =
                    Append(@, Listener("ready", TRUE, "showWindow", c))]

\* Window.create
WindowCreate(S, c, bar) ==
    IF S.config.normal_window
    THEN startNormalWindow(S, c)
    ELSE startMenuBar(S, c, bar)

-----------------------------------------------------------------------------
(* Host events: an emitter runs the listeners of the event in the order of *)
(* their registration, a once-listener being removed before it runs        *)

\* menubar: windowClear(), the package's own 'close' listener of its window
RECURSIVE EmitAfterClose(_, _)
EmitAfterClose(S, ls) ==
    IF ls = <<>> THEN S
    ELSE EmitAfterClose(appQuit(Invoked(S, "after-close", Head(ls).c, 0)), Tail(ls))

mbWindowClear(S, mb) ==
    LET ls == SelectSeqBy(S.menubars[mb].listeners, "after-close")
        S1 == Call(S, "mb.emit", 0, <<"after-close">>)
    IN  EmitAfterClose([S1 EXCEPT !.menubars[mb].window = 0,
                                  !.menubars[mb].listeners = DropOnce(@, "after-close")],
                       ls)

\* one listener of a window or of its content view
Dispatch(S, l, b, arg) ==
    CASE l.h = "will-navigate" -> onWillNavigate(S, l.c, b, arg)
      [] l.h = "new-window"    -> onNewWindow(S, l.c, b, arg)
      [] l.h = "sendConfig"    ->
            IF S.config.normal_window
            THEN sendConfigNormal(S, l.c, b)
            ELSE sendConfigMenubar(S, l.c, S.promises[l.c].menubar)
      [] l.h = "launched"      -> launchedNormal(S, l.c, b)
      [] l.h = "show"          ->
            winShow(Call(Invoked(S, "ready-to-show", l.c, b), "show", b, <<>>), b)
      [] l.h = "quit"          -> appQuit(Invoked(S, "closed", l.c, b))
      [] l.h = "state.closed"  -> [S EXCEPT !.managed[l.c] = 0]
      [] l.h = "windowClear"   -> mbWindowClear(S, S.windows[b].mb)

RECURSIVE RunListeners(_, _, _, _)
RunListeners(S, ls, b, arg) ==
    IF ls = <<>> THEN S
    ELSE RunListeners(Dispatch(S, Head(ls), b, arg), Tail(ls), b, arg)

\* an event of the window b
EmitWindow(S, b, ev) ==
    RunListeners([S EXCEPT !.windows[b].listeners = DropOnce(@, ev)],
                 SelectSeqBy(S.windows[b].listeners, ev), b, <<>>)

\* an event of the content view of b
EmitContents(S, b, ev, arg) ==
    RunListeners([S EXCEPT !.windows[b].wcListeners = DropOnce(@, ev)],
                 SelectSeqBy(S.windows[b].wcListeners, ev), b, arg)

\* the host closes b: 'close', then 'closed', then the handle is destroyed
EmitClosed(S, b) ==
    LET S1 == EmitWindow(EmitWindow(S, b, "close"), b, "closed")
    IN  [S1 EXCEPT !.windows[b].status = "destroyed",
                   !.windows[b].visible = FALSE,
                   !.windows[b].focused = FALSE,
                   !.windows[b].listeners = <<>>,
                   !.windows[b].wcListeners = <<>>]

\* menubar: 'ready', emitted once the tray exists
EmitReady(S, mb) ==
    LET ls == SelectSeqBy(S.menubars[mb].listeners, "ready")
        S1 == [S EXCEPT !.menubars[mb].ready = TRUE,
                        !.menubars[mb].listeners = DropOnce(@, "ready")]
    IN  IF ls = <<>> THEN S1
        ELSE mbShowWindow(Call(Invoked(S1, "ready", Head(ls).c, 0),
                               "mb.showWindow", 0, <<ToString(mb)>>), mb)

\* the accelerator is pressed
EmitHotKey(S) ==
    LET cb == S.shortcut[1]
    IN  IF cb.kind = "normal" THEN toggleWindow(S, cb.c, cb.win)
        ELSE toggleMenubar(S, cb.c, cb.mb)

-----------------------------------------------------------------------------
(* The state machine *)

\* the last turn: what happened, to which create call, window, menubar or
\* dialog (id), with which number (n) and which strings (arg)
Op(name, id, n, arg) == [op |-> name, id |-> id, n |-> n, arg |-> arg]

Set(T, op) ==
    /\ IS_DARWIN' = IS_DARWIN
    /\ config' = config
    /\ windows' = T.windows
    /\ menubars' = T.menubars
    /\ promises' = T.promises
    /\ managed' = T.managed
    /\ shortcut' = T.shortcut
    /\ permHandler' = T.permHandler
    /\ dialogs' = T.dialogs
    /\ quit' = T.quit
    /\ calls' = T.calls
    /\ ran' = T.ran
    /\ lastOp' = op

Init ==
    /\ IS_DARWIN \in BOOLEAN
    /\ config \in Configs
    /\ windows = <<>>
    /\ menubars = <<>>
    /\ promises = <<>>
    /\ managed = <<>>
    /\ shortcut = <<>>
    /\ permHandler = {}
    /\ dialogs = <<>>
    /\ quit = 0
    /\ lastOp = Op("init", 0, 0, <<>>)
    /\ calls = <<>>
    /\ ran = <<>>

Running == quit = 0

Wrappers == { c \in DOMAIN promises : promises[c].resolved }
OpenWrappers == { c \in Wrappers : ~promises[c].closed }

\* the menubar handles the application can hold: those of the wrappers it has
KnownMenubars == { promises[c].menubar : c \in Wrappers } \ {0}

\* host windows that exist or are about to: the windows not yet destroyed and
\* the fresh menubars that have not made their window yet
LiveHosts ==
    Cardinality({ b \in DOMAIN windows : windows[b].status # "destroyed" })
    + Cardinality({ mb \in DOMAIN menubars : ~menubars[mb].ready })

\* Window.create(account, config, mb); mb is not read in the normal mode
Create(account, bar) ==
    /\ Running
    /\ Len(promises) < MaxCreates
    /\ bar \in KnownMenubars \cup {0}
    /\ config.normal_window => bar = 0
    /\ (bar = 0 \/ menubars[bar].window = 0) => LiveHosts < MaxOpen
    /\ LET c == Len(promises) + 1
           S == [Cur EXCEPT
                    !.promises = Append(@, [account |-> account, bar |-> bar,
                                            resolved |-> FALSE, browser |-> 0,
                                            menubar |-> 0, closed |-> FALSE]),
                    !.managed = Append(@, 0)]
       IN  Set(WindowCreate(S, c, bar), Op("create", c, bar, <<>>))

\* wrapper.open(url)
Open(c, url) ==
    /\ Running
    /\ c \in OpenWrappers
    /\ Alive(Cur, promises[c].browser)
    /\ LET b == promises[c].browser
       IN  Set(Call(Cur, "loadURL", b, url), Op("open", c, 0, url))

\* wrapper.close()
Close(c) ==
    /\ Running
    /\ c \in OpenWrappers
    /\ Alive(Cur, promises[c].browser)
    /\ Set(WindowClose(Cur, c), Op("close", c, promises[c].browser, <<>>))

HostMenubarReady(mb) ==
    /\ Running
    /\ mb \in DOMAIN menubars
    /\ ~menubars[mb].ready
    /\ Set(EmitReady(Cur, mb), Op("ready", mb, 0, <<>>))

HostReadyToShow(b) ==
    /\ Running
    /\ b \in DOMAIN windows
    /\ windows[b].status = "open"
    /\ SelectSeqBy(windows[b].listeners, "ready-to-show") # <<>>
    /\ Set(EmitWindow([Cur EXCEPT !.windows[b].readyFired = TRUE], b, "ready-to-show"),
           Op("ready-to-show", b, 0, <<>>))

HostDomReady(b) ==
    /\ Running
    /\ b \in DOMAIN windows
    /\ Alive(Cur, b)
    /\ Set(EmitContents(Cur, b, "dom-ready", <<>>), Op("dom-ready", b, 0, <<>>))

HostWillNavigate(b, url) ==
    /\ Running
    /\ b \in DOMAIN windows
    /\ Alive(Cur, b)
    /\ Set(EmitContents(Cur, b, "will-navigate", url), Op("will-navigate", b, 0, url))

HostNewWindow(b, url) ==
    /\ Running
    /\ b \in DOMAIN windows
    /\ Alive(Cur, b)
    /\ Set(EmitContents(Cur, b, "new-window", url), Op("new-window", b, 0, url))

HostHotKey ==
    /\ Running
    /\ shortcut # <<>>
    /\ Set(EmitHotKey(Cur), Op("hot-key", 0, 0, <<>>))

\* the user closes the window
UserCloseWindow(b) ==
    /\ Running
    /\ b \in DOMAIN windows
    /\ windows[b].status = "open"
    /\ Set(EmitClosed(Cur, b), Op("closed", b, 0, <<"user">>))

\* the host completes a browser.close()
HostWindowClosed(b) ==
    /\ Running
    /\ b \in DOMAIN windows
    /\ windows[b].status = "closing"
    /\ Set(EmitClosed(Cur, b), Op("closed", b, 0, <<"close()">>))

HostPermissionRequest(b, permission) ==
    /\ Running
    /\ b \in DOMAIN windows
    /\ windows[b].status = "open"
    /\ windows[b].partition \in permHandler
    /\ NeedsPrompt(permission) => Len(dialogs) < MaxDialogs
    /\ Set(onPermissionRequest(Cur, b, permission), Op("permission-request", b, 0, <<permission>>))

UserAnswerDialog(d, buttonIndex) ==
    /\ Running
    /\ d \in DOMAIN dialogs
    /\ buttonIndex < Len(dialogs[d].buttons)
    /\ Set(onDialogAnswer(Cur, d, buttonIndex), Op("dialog-answer", d, buttonIndex, <<>>))

Next ==
    \/ \E a \in Accounts, bar \in 0..MaxCreates : Create(a, bar)
    \/ \E c \in 1..MaxCreates, url \in {<<"https://", "a">>} : Open(c, url)
    \/ \E c \in 1..MaxCreates : Close(c)
    \/ \E mb \in 1..MaxCreates : HostMenubarReady(mb)
    \/ \E b \in 1..MaxCreates : HostReadyToShow(b)
    \/ \E b \in 1..MaxCreates : HostDomReady(b)
    \/ \E b \in 1..MaxCreates, url \in Urls : HostWillNavigate(b, url)
    \/ \E b \in 1..MaxCreates, url \in Urls : HostNewWindow(b, url)
    \/ HostHotKey
    \/ \E b \in 1..MaxCreates : UserCloseWindow(b)
    \/ \E b \in 1..MaxCreates : HostWindowClosed(b)
    \/ \E b \in 1..MaxCreates, p \in Permissions : HostPermissionRequest(b, p)
    \/ \E d \in 1..MaxDialogs, i \in ButtonIndexes : UserAnswerDialog(d, i)

Spec == Init /\ [][Next]_vars

\* The host keeps processing events: what it has started it completes.  The
\* user's actions and the application's calls are under no obligation.
Fairness ==
    /\ \A mb \in 1..MaxCreates : WF_vars(HostMenubarReady(mb))
    /\ \A b \in 1..MaxCreates : WF_vars(HostReadyToShow(b))
    /\ \A b \in 1..MaxCreates : WF_vars(HostWindowClosed(b))

FairSpec == Spec /\ Fairness

-----------------------------------------------------------------------------
(* Observations of the last turn *)

NavigationOps == {"will-navigate", "new-window"}

\* the open wrappers whose host window is b
WrappersOn(b) == { c \in OpenWrappers : promises[c].browser = b }

External(c, url) == ~StartsWith(url, HostPrefix(promises[c].account))

DefaultPrevented == Count(calls, "preventDefault") > 0

\* position of the first call of that name in the last turn, 0 if none
FirstCall(name) ==
    IF \E i \in DOMAIN calls : calls[i].call = name
    THEN CHOOSE i \in DOMAIN calls :
            /\ calls[i].call = name
            /\ \A j \in 1..(i - 1) : calls[j].call # name
    ELSE 0

-----------------------------------------------------------------------------
(* C1: a navigation event ('will-navigate' or 'new-window') on the window   *)
(* of an open wrapper, with a URL that does not start with                  *)
(* https://{account.host}, cancels the default navigation and opens the URL *)
(* in the external browser exactly once for that event.                     *)
C1_ExternalOpenedOnce ==
    lastOp.op \in NavigationOps =>
        \A c \in WrappersOn(lastOp.id) :
            External(c, lastOp.arg) =>
                /\ DefaultPrevented
                /\ Count(calls, "openExternal") = 1

(* C2: a navigation event with a URL that starts with https://{account.host} *)
(* is left alone by both handlers: no preventDefault, no external open.      *)
C2_InternalUntouched ==
    ( /\ lastOp.op \in NavigationOps
      /\ WrappersOn(lastOp.id) # {}
      /\ \A c \in WrappersOn(lastOp.id) : ~External(c, lastOp.arg) )
    => ( ~DefaultPrevented /\ Count(calls, "openExternal") = 0 )

(* C3: the turn in which a standard window becomes closed, or in which the  *)
(* menubar fires 'after-close', calls app.quit() exactly once.              *)
C3_QuitExactlyOnce ==
    ( /\ lastOp.op = "closed"
      /\ config.normal_window \/ Count(calls, "mb.emit") > 0 )
    => Count(calls, "app.quit") = 1

(* C4: close() removes all listeners of the content view and of the window  *)
(* before it calls the host close, and calls unmanage exactly once.         *)
C4_CloseOrder ==
    lastOp.op = "close" =>
        /\ Count(calls, "state.unmanage") = 1
        /\ Count(calls, "browser.close") = 1
        /\ FirstCall("webContents.removeAllListeners") # 0
        /\ FirstCall("removeAllListeners") # 0
        /\ FirstCall("webContents.removeAllListeners") < FirstCall("browser.close")
        /\ FirstCall("removeAllListeners") < FirstCall("browser.close")
        /\ windows[lastOp.n].listeners = <<>>
        /\ windows[lastOp.n].wcListeners = <<>>
        /\ managed[lastOp.id] = 0

C4_Witness ==
    /\ lastOp.op = "close"
    /\ promises[lastOp.id].menubar # 0
    /\ windows[lastOp.n].status = "closing"

(* C5: a create call in the menubar mode that is given an existing menubar  *)
(* handle sets the partition option of that handle to the partition of the  *)
(* new account, calls showWindow on it and constructs no menubar; a wrapper *)
(* resolved from such a call holds the handle that was passed in.           *)
C5_ReuseMenubar ==
    /\ (lastOp.op = "create" /\ lastOp.n # 0) =>
            /\ menubars[lastOp.n].partition =
                    partitionForAccount(promises[lastOp.id].account)
            /\ Count(calls, "mb.setOption") = 1
            /\ Count(calls, "mb.showWindow") = 1
            /\ Count(calls, "menubar") = 0
    /\ \A c \in Wrappers :
            promises[c].bar # 0 => promises[c].menubar = promises[c].bar

C5_Witness ==
    /\ lastOp.op = "create"
    /\ lastOp.n = 2
    /\ lastOp.id \in Wrappers
    /\ \E d \in Wrappers :
            /\ promises[d].menubar = 2
            /\ promises[d].account # promises[lastOp.id].account

PromptKinds == {"geolocation", "media"}

(* C6: a permission request for 'geolocation' or 'media' opens a prompt     *)
(* with the buttons <<Accept, Reject>> and is not answered in that turn;    *)
(* the answer of the prompt grants the request for index 0 and denies it    *)
(* for every other index.                                                   *)
C6_PromptDecides ==
    /\ (lastOp.op = "permission-request" /\ lastOp.arg[1] \in PromptKinds) =>
            /\ Count(calls, "dialog.showMessageBox") = 1
            /\ calls[FirstCall("dialog.showMessageBox")].arg = <<"Accept", "Reject">>
            /\ Count(calls, "callback") = 0
    /\ lastOp.op = "dialog-answer" =>
            /\ Count(calls, "callback") = 1
            /\ calls[FirstCall("callback")].arg = Bool(lastOp.n = 0)

C6_Witness ==
    /\ lastOp.op = "dialog-answer"
    /\ lastOp.n = 1
    /\ Count(calls, "callback") = 1
    /\ calls[FirstCall("callback")].arg = <<"false">>

(* C7: a permission request for any other kind is granted in the turn of    *)
(* the request and opens no prompt.                                         *)
C7_AutoGrant ==
    (lastOp.op = "permission-request" /\ lastOp.arg[1] \notin PromptKinds) =>
        /\ Count(calls, "callback") = 1
        /\ calls[FirstCall("callback")].arg = <<"true">>
        /\ Count(calls, "dialog.showMessageBox") = 0

C7_Witness ==
    /\ lastOp.op = "permission-request"
    /\ lastOp.arg = <<"notifications">>
    /\ Count(calls, "callback") = 1

\* the readiness event of create call c has fired
AfterCreateWindowPending(c) ==
    \E mb \in DOMAIN menubars : \E i \in DOMAIN menubars[mb].listeners :
        menubars[mb].listeners[i] =
            Listener("after-create-window", TRUE, "after-create-window", c)

ReadinessFired(c) ==
    IF config.normal_window
    THEN windows[promises[c].browser].readyFired
    ELSE ~AfterCreateWindowPending(c)

(* C8 as stated: the promise of a create call is resolved only after the    *)
(* readiness event of its window has fired ('ready-to-show' of a standard   *)
(* window, 'after-create-window' of a menubar window).                      *)
C8_ResolvedAfterReadiness ==
    \A c \in Wrappers : ReadinessFired(c)

(* C8 amended: the promise of a menubar create call is resolved only after  *)
(* 'after-create-window' has fired for it; the promise of a standard create *)
(* call is resolved by the create call itself, whether or not               *)
(* 'ready-to-show' has fired.                                               *)
C8_ResolveTiming ==
    \A c \in DOMAIN promises :
        IF config.normal_window
        THEN promises[c].resolved
        ELSE promises[c].resolved => ~AfterCreateWindowPending(c)

C8_Witness ==
    /\ ~config.normal_window
    /\ \E c \in DOMAIN promises, d \in DOMAIN promises :
            /\ promises[c].resolved
            /\ ~promises[d].resolved
            /\ AfterCreateWindowPending(d)
            /\ promises[d].bar = promises[c].menubar

(* C9: no callback the controller registered runs against the host window   *)
(* of a wrapper on which close() has run.                                   *)
C9_NoCallbackAfterClose ==
    \A i \in DOMAIN ran : \A c \in Wrappers :
        promises[c].closed => ran[i].win # promises[c].browser

(* C10: every create call eventually resolves to a wrapper, as long as the  *)
(* application has not quit.                                                *)
C10_CreateResolves ==
    \A c \in 1..MaxCreates :
        (c \in DOMAIN promises) ~> (c \in Wrappers \/ quit > 0)

\* the config messages of the last turn are exactly one, built from acc
OneConfigMessage(acc) ==
    /\ Count(calls, "send") = 1
    /\ calls[FirstCall("send")].arg = ConfigMessage(config, acc)

(* C11: a 'dom-ready' of an open window sends exactly one config message to *)
(* its page, carrying the config and the account of the create call that    *)
(* produced the window, on the first load and on every later one.           *)
C11_ConfigSentOnce ==
    (lastOp.op = "dom-ready" /\ windows[lastOp.id].status = "open") =>
        \A c \in WrappersOn(lastOp.id) : OneConfigMessage(promises[c].account)

\* the window the registered hot-key callback reads when it runs
HotKeyTarget ==
    IF shortcut = <<>> THEN 0
    ELSE IF shortcut[1].kind = "normal" THEN shortcut[1].win
    ELSE menubars[shortcut[1].mb].window

\* b, unfocused before the step, is shown by it; focused before, hidden by it
Toggled(b) ==
    IF windows[b].focused
    THEN ~windows'[b].visible /\ ~windows'[b].focused
    ELSE windows'[b].visible /\ windows'[b].focused

\* the readiness listener that registers the hot key for b has run
Launched(b) ==
    \A i \in DOMAIN windows[b].wcListeners : windows[b].wcListeners[i].h # "launched"

(* C12: when the registered hot key fires, the open window of the           *)
(* application (one that has had its readiness event) is hidden if it was   *)
(* focused and shown if it was not, in both modes.                          *)
C12_HotKeyToggles ==
    [][ lastOp'.op = "hot-key" =>
            \A b \in DOMAIN windows :
                (windows[b].status = "open" /\ Launched(b)) => Toggled(b) ]_vars

\* the geometry state of create call c tracks b: it holds b and listens to it
Managed(c, b) ==
    /\ managed[c] = b
    /\ \E i \in DOMAIN windows[b].listeners : windows[b].listeners[i] = StateListenerOf(c)

\* the geometry state of create call c tracks nothing
Unmanaged(c) ==
    /\ managed[c] = 0
    /\ \A b \in DOMAIN windows : \A i \in DOMAIN windows[b].listeners :
            windows[b].listeners[i] # StateListenerOf(c)

C14_OwnPartition ==
    \A c \in Wrappers :
        windows[promises[c].browser].partition = partitionForAccount(promises[c].account)

(* C15: no two wrappers hold the same host window handle.                   *)
C15_OneWrapperPerWindow ==
    \A c \in Wrappers, d \in Wrappers :
        promises[c].browser = promises[d].browser => c = d

\* position of the first call of that name in the turn the step makes
FirstCallNext(name) ==
    IF \E i \in DOMAIN calls' : calls'[i].call = name
    THEN CHOOSE i \in DOMAIN calls' :
            /\ calls'[i].call = name
            /\ \A j \in 1..(i - 1) : calls'[j].call # name
    ELSE 0

\* close() of wrapper c, taken by the step, clears the window reference of
\* the wrapper's menubar before it closes the host window; without a
\* menubar it leaves every menubar handle as it was
CloseDetaches(c) ==
    IF promises[c].menubar # 0
    THEN /\ menubars'[promises[c].menubar].window = 0
         /\ FirstCallNext("delete menubar.window") # 0
         /\ FirstCallNext("delete menubar.window") < FirstCallNext("browser.close")
    ELSE /\ menubars' = menubars
         /\ FirstCallNext("delete menubar.window") = 0

\* a create call that reuses the handle mb, taken by the step when mb holds
\* no window, makes mb create a new host window
ReuseCreatesWindow(mb) ==
    menubars[mb].window = 0 =>
        /\ Len(windows') = Len(windows) + 1
        /\ menubars'[mb].window = Len(windows')
        /\ windows'[Len(windows')].status = "open"

(* C16: close() on a menubar wrapper clears the window reference of the     *)
(* menubar handle before the host close is called, and a later create that  *)
(* reuses the handle makes the menubar create a new host window; close() on *)
(* a standard wrapper touches no menubar handle.                            *)
C16_CloseDetachesMenubar ==
    [][ /\ lastOp'.op = "close" => CloseDetaches(lastOp'.id)
        /\ (lastOp'.op = "create" /\ lastOp'.n # 0) => ReuseCreatesWindow(lastOp'.n)
      ]_vars

C16_Witness ==
    /\ lastOp.op = "create"
    /\ lastOp.n # 0
    /\ menubars[lastOp.n].window = Len(windows)
    /\ \E c \in Wrappers :
            /\ promises[c].closed
            /\ promises[c].menubar = lastOp.n
            /\ promises[c].browser # Len(windows)
            /\ windows[promises[c].browser].status = "destroyed"

\* the globalShortcut.register calls the step makes
RegisterCalls == { i \in DOMAIN calls' : calls'[i].call = "globalShortcut.register" }

\* the step is the readiness event of b: the first 'dom-ready' of a standard
\* window, the 'after-create-window' of a menubar window
ReadinessStep(b) ==
    IF config.normal_window
    THEN lastOp'.op = "dom-ready" /\ lastOp'.id = b /\ ~Launched(b)
    ELSE /\ b = Len(windows) + 1
         /\ \E j \in DOMAIN ran' : ran'[j].h = "after-create-window" /\ ran'[j].win = b

(* C17: the hot key is registered only when config.hot_key is not empty,    *)
(* only in the readiness event of a window, and at most once for a window:  *)
(* a later 'dom-ready' registers nothing.                                   *)
C17_HotKeyRegisteredOnce ==
    [][ /\ \A i \in RegisterCalls :
                /\ config.hot_key # ""
                /\ ReadinessStep(calls'[i].win)
                /\ \A j \in RegisterCalls : calls'[j].win = calls'[i].win => j = i
        /\ (lastOp'.op = "dom-ready" /\ Launched(lastOp'.id)) => RegisterCalls = {}
      ]_vars

\* requests made by the step, and callbacks invoked by it
RequestsMade == IF lastOp'.op = "permission-request" THEN 1 ELSE 0
CallbacksInvoked == Count(calls', "callback")

(* C18: every permission request has its callback invoked exactly once: in  *)
(* the turn of the request when the kind needs no prompt, in the turn of    *)
(* the user's answer otherwise.  Each step answers or leaves open exactly   *)
(* the requests it receives and the prompts it closes.                      *)
C18_CallbackExactlyOnce ==
    [][ /\ Len(dialogs') + CallbacksInvoked = Len(dialogs) + RequestsMade
        /\ lastOp'.op = "permission-request" =>
                CallbacksInvoked = (IF lastOp'.arg[1] \in PromptKinds THEN 0 ELSE 1)
        /\ lastOp'.op = "dialog-answer" =>
                (CallbacksInvoked = 1 /\ Len(dialogs') = Len(dialogs) - 1)
        /\ lastOp'.op \notin {"permission-request", "dialog-answer"} =>
                CallbacksInvoked = 0
      ]_vars

C18_Witness ==
    /\ lastOp.op = "dialog-answer"
    /\ lastOp.n = 0
    /\ dialogs = <<>>
    /\ Count(calls, "callback") = 1
    /\ calls[FirstCall("callback")].arg = <<"true">>

====
